---- MODULE Spec2Model ----
(***************************************************************************)
(* BuildSarimax (auto_ts/models/ar_based/sarimax.py): the train/test       *)
(* split, the one- or two-pass order search, the final SARIMAX fit with    *)
(* its failure sentinel, the verbose-only diagnostics, the dynamic         *)
(* forecast and predict().                                                 *)
(*                                                                         *)
(* The state is a family of BuildSarimax objects, objs[o].  Every action   *)
(* is one stretch of fit() (or a whole predict() call) between two calls   *)
(* into the collaborators (find_best_pdq_or_PDQ, statsmodels, matplotlib), *)
(* whose outcomes are inputs of the action.  With one object this is the   *)
(* program; with two objects the objects run side by side in the same      *)
(* world: a collaborator called with the same arguments answers the same.  *)
(***************************************************************************)
EXTENDS Integers, Sequences, FiniteSets, TLC

VARIABLES objs, budget

vars == <<objs, budget>>

\* ------------------------------------------------------------------ bounds
MaxLen == 3      \* longest series passed to fit
MaxH == 2        \* largest forecast_period
MaxP == 1        \* p_max
MaxD == 1        \* d_max
MaxQ == 0        \* q_max
MaxFits == 2     \* fit calls in the lifetime specification

\* ------------------------------------------------------------------ values
\* Python's None where an object is expected, and where a tuple or an int is.
NoneObj == [kind |-> "None"]
None == <<>>
\* np.inf
Inf == [kind |-> "inf"]

\* A series is its points in time order; fit never looks into a point, so the
\* point at position i is i itself (-i where two series are to differ there).
Series == {[i \in 1..n |-> i] : n \in 0..MaxLen}

Max(a, b) == IF a > b THEN a ELSE b
Min(a, b) == IF a < b THEN a ELSE b

\* A Python slice bound i on a sequence of length n, as an offset in 0..n.
SliceIndex(i, n) == IF i < 0 THEN Max(i + n, 0) ELSE Min(i, n)

\* s[:stop]
SliceTo(s, stop) == SubSeq(s, 1, SliceIndex(stop, Len(s)))

\* s[start:]
SliceFrom(s, start) == SubSeq(s, SliceIndex(start, Len(s)) + 1, Len(s))

\* Mutants of ts_train_of: the whole series, and a slice one point too long.
ts_train_bug_keep_all(ts_df, forecast_period) == ts_df
ts_train_bug_off_by_one(ts_df, forecast_period) ==
    SliceTo(ts_df, -(forecast_period - 1))

\* ts_train = ts_df[:-self.forecast_period]
ts_train_of(ts_df, forecast_period) == SliceTo(ts_df, -forecast_period)

\* ts_test = ts_df[-self.forecast_period:]
ts_test_of(ts_df, forecast_period) == SliceFrom(ts_df, -forecast_period)

\* ------------------------------------------------------------- construction
\* The names eval('self.model.' + metric) resolves on a fitted result.
ResultAttributes == {"aic", "bic", "hqic", "llf"}
\* The metrics an object is built with: one that resolves, one that does not.
Metrics == {"bic", "rmse"}
SeasonalPeriods == {12}

\* BuildSarimax.__init__: the object's fields in self.  Beside them, where the
\* object's fit call stands (pc) with its local variables, and what is recorded
\* of the calls: the number of fit calls so far, the calls the current fit has
\* made to its collaborators (trace), how the last fit ended (ret) and the last
\* predict call (pred).
NewBuildSarimax(metric, seasonality, seasonal_period, forecast_period, verbose) ==
    [self |-> [metric |-> metric,
               seasonality |-> seasonality,
               seasonal_period |-> seasonal_period,
               p_max |-> MaxP, d_max |-> MaxD, q_max |-> MaxQ,
               forecast_period |-> forecast_period,
               verbose |-> verbose,
               model |-> NoneObj],
     pc |-> "idle",
     call |-> 0,
     ts_df |-> <<>>, ts_train |-> <<>>, ts_test |-> <<>>,
     best_pdq |-> None, best_PDQ |-> None, seasonality |-> FALSE,
     bestmodel |-> NoneObj,
     trace |-> <<>>,
     ret |-> NoneObj,
     pred |-> NoneObj]

Configs ==
    {NewBuildSarimax(m, s[1], s[2], h, v) :
        m \in Metrics,
        s \in {<<FALSE, None>>} \cup {<<TRUE, <<k>>>> : k \in SeasonalPeriods},
        h \in 0..MaxH,
        v \in {0, 1}}

\* ------------------------------------------------------------ collaborators
\* What find_best_pdq_or_PDQ may return as (best_p, best_d, best_q) or
\* (best_P, best_D, best_Q), with its seasonality flag: the non-seasonal pass
\* has nothing to confirm, the seasonal pass confirms seasonality or not.
SearchResults(self, seasonality) ==
    {[order |-> <<p, d, q>>, seasonality |-> f] :
        p \in 0..self.p_max, d \in 0..self.d_max, q \in 0..self.q_max,
        f \in IF seasonality THEN BOOLEAN ELSE {FALSE}}

\* bestmodel.fit() returns the results object or raises (singular matrix).
FitOutcomes == {"ok", "LinAlgError"}

\* The verbose-only call of fit that raises: plot_diagnostics (line 117),
\* print_static_rmse (131), the plot of line 144, fill_between (150-152), one of
\* the other plotting calls (146-148, 155-158); "ok": none does.
DiagnosticOutcomes ==
    {"ok", "plot_diagnostics", "print_static_rmse", "plot", "fill_between", "show"}

\* print(self.model.summary()) may raise; "ok": it does not.
SummaryOutcomes == {"ok", "summary"}

\* find_best_pdq_or_PDQ(ts_train, self.metric, self.p_max, self.d_max,
\*     self.q_max, non_seasonal_pdq=., seasonal_period=., seasonality=.,
\*     verbose=self.verbose), with what it returned
SearchCall(o, non_seasonal_pdq, seasonal_period, seasonality, returned) ==
    [ev |-> "find_best_pdq_or_PDQ",
     returned |-> returned,
     ts |-> o.ts_train,
     metric |-> o.self.metric,
     p_max |-> o.self.p_max, d_max |-> o.self.d_max, q_max |-> o.self.q_max,
     non_seasonal_pdq |-> non_seasonal_pdq,
     seasonal_period |-> seasonal_period,
     seasonality |-> seasonality,
     verbose |-> o.self.verbose]

\* SARIMAX(endog, order=., [seasonal_order=.,] enforce_stationarity=False,
\*     enforce_invertibility=False, trend='ct', start_params=[0, 0, 0, 1],
\*     simple_differencing=False): the unfitted model
SARIMAX(endog, order, seasonal_order) ==
    [kind |-> "SARIMAX", endog |-> endog, order |-> order,
     seasonal_order |-> seasonal_order,
     trend |-> "ct", simple_differencing |-> FALSE]

\* The results object bestmodel.fit() returns in fit call number `call`.
Fitted(bestmodel, call) ==
    [kind |-> "SARIMAXResults", model |-> bestmodel, call |-> call]

\* results.predict(dynamic=False): one prediction per point of endog
InSample(results) ==
    [i \in 1..Len(results.model.endog) |-> [yhat |-> i]]

\* results.forecast(steps)
Forecast(results, steps) ==
    [kind |-> "forecast", of |-> results, steps |-> steps]

Raise(o, error) == [o EXCEPT !.pc = "idle", !.ret = [kind |-> "raise", error |-> error]]

Return(o, value) == [o EXCEPT !.pc = "idle", !.ret = [kind |-> "return", value |-> value]]

\* ------------------------------------------------------------------ predict
\* Mutant of predict_steps: `if not forecast_period` for `is None`.
predict_steps_bug_falsy_zero(o, forecast_period) ==
    IF forecast_period = None \/ forecast_period = <<0>> THEN o.self.forecast_period
    ELSE forecast_period[1]

\* The steps predict asks the stored model to forecast, lines 175-180;
\* forecast_period is None or <<h>>.
predict_steps(o, forecast_period) ==
    IF forecast_period = None THEN o.self.forecast_period
    ELSE forecast_period[1]

\* BuildSarimax.predict: what it returns, or the error of None.forecast
predict(o, forecast_period) ==
    IF o.self.model = NoneObj
    THEN [kind |-> "raise", error |-> "AttributeError"]
    ELSE Forecast(o.self.model, predict_steps(o, forecast_period))

\* A call of predict from outside: the object after it, with the call's
\* argument, its outcome and the fields the object had before it in pred.
predict_call(o, forecast_period) ==
    [o EXCEPT !.pred = [arg |-> forecast_period,
                        out |-> predict(o, forecast_period),
                        before |-> o.self]]

\* ---------------------------------------------------------------------- fit
\* fit, lines 30-39: the split
fit_split(o, ts_df) ==
    [o EXCEPT !.pc = "find_pdq",
              !.call = @ + 1,
              !.ts_df = ts_df,
              !.ts_train = ts_train_of(ts_df, o.self.forecast_period),
              !.ts_test = ts_test_of(ts_df, o.self.forecast_period),
              !.best_pdq = None, !.best_PDQ = None, !.seasonality = FALSE,
              !.bestmodel = NoneObj,
              !.trace = <<>>,
              !.ret = NoneObj,
              !.pred = NoneObj]

\* The non-seasonal pass's call, lines 44-46 and 63-67
nonseasonal_search(o, res) ==
    SearchCall(o, None, None, FALSE, res)

\* fit, lines 41-67: the non-seasonal pass and, in the non-seasonal branch,
\* the construction of bestmodel
fit_find_pdq(o, res) ==
    LET call == nonseasonal_search(o, res)
        bestmodel == SARIMAX(o.ts_train, res.order, None)
    IN  IF ~o.self.seasonality
        THEN [o EXCEPT !.pc = "final_fit",
                       !.best_pdq = res.order,
                       !.seasonality = res.seasonality,
                       !.bestmodel = bestmodel,
                       !.trace = @ \o <<call, [ev |-> "SARIMAX", model |-> bestmodel]>>]
        ELSE [o EXCEPT !.pc = "find_PDQ",
                       !.best_pdq = res.order,
                       !.seasonality = res.seasonality,
                       !.trace = Append(@, call)]

\* Mutant of seasonal_search: the first pass's order is not handed on.
seasonal_search_bug_pdq_not_passed(o, res) ==
    SearchCall(o, None, o.self.seasonal_period, TRUE, res)

\* The seasonal pass's call, lines 69-73
seasonal_search(o, res) ==
    SearchCall(o, o.best_pdq, o.self.seasonal_period, TRUE, res)

\* Mutant of seasonal_bestmodel: the seasonal order whatever the pass found.
seasonal_bestmodel_bug_flag_ignored(o, best_PDQ, seasonality) ==
    SARIMAX(o.ts_train, o.best_pdq,
            <<best_PDQ[1], best_PDQ[2], best_PDQ[3], o.self.seasonal_period>>)

\* bestmodel of the seasonal branch, lines 77-105; seasonality is the flag the
\* seasonal pass returned
seasonal_bestmodel(o, best_PDQ, seasonality) ==
    IF seasonality
    THEN SARIMAX(o.ts_train, o.best_pdq,
                 <<best_PDQ[1], best_PDQ[2], best_PDQ[3], o.self.seasonal_period>>)
    ELSE SARIMAX(o.ts_train, o.best_pdq, None)

\* fit, lines 68-105: the seasonal pass and the construction of bestmodel
fit_find_PDQ(o, res) ==
    LET call == seasonal_search(o, res)
        bestmodel == seasonal_bestmodel(o, res.order, res.seasonality)
    IN  [o EXCEPT !.pc = "final_fit",
                  !.best_PDQ = res.order,
                  !.seasonality = res.seasonality,
                  !.bestmodel = bestmodel,
                  !.trace = @ \o <<call, [ev |-> "SARIMAX", model |-> bestmodel]>>]

\* Mutant of fit_except: the error propagates.
fit_except_bug_reraise(o) == Raise(o, "LinAlgError")

\* The except clause of the final fit, lines 111-113
fit_except(o) == Return(o, <<o.bestmodel, NoneObj, Inf, Inf>>)

\* fit, lines 107-113: the final fit, the print of the metric (which reads
\* self.model.<metric>) and the except clause around both
fit_final(o, outcome) ==
    LET fit == [ev |-> "fit", of |-> o.bestmodel, raised |-> outcome # "ok"]
        metric == [ev |-> "metric", name |-> o.self.metric,
                   raised |-> o.self.metric \notin ResultAttributes]
    IN  IF fit.raised
        THEN fit_except([o EXCEPT !.trace = Append(@, fit)])
        ELSE LET stored == [o EXCEPT !.self.model = Fitted(o.bestmodel, o.call),
                                     !.trace = @ \o <<fit, metric>>]
             IN  IF metric.raised
                 THEN fit_except(stored)
                 ELSE [stored EXCEPT !.pc = "diagnostics"]

\* The leading points fit drops before the static error, lines 131-132: best_d
static_skip(o) == o.best_pdq[2]

\* print_static_rmse(concatenated['original'].values[best_d:],
\*                   concatenated['predicted'].values[best_d:], verbose=.)
static_rmse_call(o) ==
    [ev |-> "print_static_rmse",
     actual |-> SliceFrom(o.ts_train, static_skip(o)),
     predicted |-> SliceFrom(InSample(o.self.model), static_skip(o)),
     dropped |-> static_skip(o)]

\* fit, lines 115-158: the in-sample predictions and, with verbose == 1 only,
\* the diagnostics, the static error and the plots.  Of these, plot_diagnostics
\* and fill_between are called inside try/except.
fit_diagnostics(o, outcome) ==
    LET in_sample == [o EXCEPT !.trace = Append(@, [ev |-> "predict", dynamic |-> FALSE])]
        static == [in_sample EXCEPT !.trace = Append(@, static_rmse_call(o))]
    IN  IF o.self.verbose # 1
        THEN [in_sample EXCEPT !.pc = "forecast"]
        ELSE IF outcome = "print_static_rmse"
        THEN Raise(static, "print_static_rmse")
        ELSE IF outcome = "plot"
        THEN Raise(static, "plot")
        ELSE IF o.self.forecast_period + 1 > Len(o.ts_df)
        THEN Raise(static, "IndexError")
        ELSE IF outcome = "show"
        THEN Raise(static, "show")
        ELSE [static EXCEPT !.pc = "forecast"]

\* fit, lines 160-168: the dynamic forecast and the return
fit_forecast(o, outcome) ==
    LET steps == o.self.forecast_period
        res2_df == [kind |-> "summary_frame", of |-> o.self.model, steps |-> steps]
        y_forecasted == predict(o, None)
        rmse_call == [ev |-> "print_dynamic_rmse", actual |-> o.ts_test,
                      predicted |-> y_forecasted, original |-> o.ts_train]
        rmse == [kind |-> "rmse", actual |-> o.ts_test, predicted |-> y_forecasted]
        norm_rmse == [kind |-> "norm_rmse", actual |-> o.ts_test,
                      predicted |-> y_forecasted, original |-> o.ts_train]
        forecast == [o EXCEPT !.trace = @ \o <<[ev |-> "get_forecast", steps |-> steps],
                                               [ev |-> "forecast", steps |-> y_forecasted.steps]>>]
    IN  IF o.self.verbose = 1 /\ outcome = "summary"
        THEN Raise(forecast, "summary")
        ELSE Return([forecast EXCEPT !.trace = Append(@, rmse_call)],
                    <<o.self.model, res2_df, rmse, norm_rmse>>)

\* ------------------------------------------------------------------ actions
Objs == DOMAIN objs

At(pc) == {o \in Objs : objs[o].pc = pc}

\* The collaborator's answers to what the objects at pc ask it.  The objects
\* live in one world: an answer is a function of the question, so two objects
\* that ask the same are answered the same.
Answering(pc, Question(_), Answers(_)) ==
    {answer \in [{Question(objs[o]) : o \in At(pc)} ->
                    UNION {Answers(objs[o]) : o \in At(pc)}] :
        \A o \in At(pc) : answer[Question(objs[o])] \in Answers(objs[o])}

\* The objects at pc take `step`, each with the answer to its question.
Step(pc, step(_, _), Question(_), answer) ==
    objs' = [o \in Objs |->
                IF objs[o].pc = pc
                THEN step(objs[o], answer[Question(objs[o])])
                ELSE objs[o]]

\* What the order search is asked (verbose only gates its printing).
SearchArguments(call) ==
    [k \in DOMAIN call \ {"ev", "returned"} |-> call[k]]

\* What the search is asked: the arguments of the call the object is about to
\* make, verbose among them.
SearchQuestion(o) ==
    IF o.pc = "find_PDQ"
    THEN SearchArguments(seasonal_search(o, NoneObj))
    ELSE SearchArguments(nonseasonal_search(o, NoneObj))

NonSeasonalAnswers(o) == SearchResults(o.self, FALSE)

SeasonalAnswers(o) == SearchResults(o.self, TRUE)

\* What the estimator is asked to fit.
FitQuestion(o) == o.bestmodel

FitAnswers(o) == FitOutcomes

\* Plotting and printing see the whole run.
Whole(o) == o

DiagnosticAnswers(o) == DiagnosticOutcomes

SummaryAnswers(o) == SummaryOutcomes

\* A caller calls fit(ts_df) on the idle objects.
CallFitOn(ts_df) ==
    /\ At("idle") = Objs
    /\ budget > 0
    /\ budget' = budget - 1
    /\ objs' = [o \in Objs |-> fit_split(objs[o], ts_df[o])]

CallFit == \E ts_df \in [Objs -> Series] : CallFitOn(ts_df)

FindBestPdq ==
    /\ At("find_pdq") # {}
    /\ \E answer \in Answering("find_pdq", SearchQuestion, NonSeasonalAnswers) :
          Step("find_pdq", fit_find_pdq, SearchQuestion, answer)
    /\ UNCHANGED budget

FindBestPDQ ==
    /\ At("find_PDQ") # {}
    /\ \E answer \in Answering("find_PDQ", SearchQuestion, SeasonalAnswers) :
          Step("find_PDQ", fit_find_PDQ, SearchQuestion, answer)
    /\ UNCHANGED budget

FinalFit ==
    /\ At("final_fit") # {}
    /\ \E answer \in Answering("final_fit", FitQuestion, FitAnswers) :
          Step("final_fit", fit_final, FitQuestion, answer)
    /\ UNCHANGED budget

Diagnostics ==
    /\ At("diagnostics") # {}
    /\ \E answer \in Answering("diagnostics", Whole, DiagnosticAnswers) :
          Step("diagnostics", fit_diagnostics, Whole, answer)
    /\ UNCHANGED budget

DynamicForecast ==
    /\ At("forecast") # {}
    /\ \E answer \in Answering("forecast", Whole, SummaryAnswers) :
          Step("forecast", fit_forecast, Whole, answer)
    /\ UNCHANGED budget

\* A caller calls predict(forecast_period) on the idle objects.
CallPredict ==
    /\ At("idle") = Objs
    /\ \E forecast_period \in {None} \cup {<<h>> : h \in 0..MaxH} :
          objs' = [o \in Objs |-> predict_call(objs[o], forecast_period)]
    /\ UNCHANGED budget

\* One object of any configuration, and one fit call on it.
Init ==
    /\ \E c \in Configs : objs = [o \in {1} |-> c]
    /\ budget = 1

Next ==
    \/ CallFit
    \/ FindBestPdq
    \/ FindBestPDQ
    \/ FinalFit
    \/ Diagnostics
    \/ DynamicForecast

Spec == Init /\ [][Next]_vars

\* The callers below keep fit's precondition: a positive forecast_period, and
\* series longer than it.

\* The series that differ from s in some of its last k points at most.
Revalued(s, k) ==
    {[i \in 1..Len(s) |-> IF i \in flipped THEN -s[i] ELSE s[i]] :
        flipped \in SUBSET {i \in 1..Len(s) : i > Len(s) - k}}

CallFitLong ==
    \E ts_df \in [Objs -> Series] :
        /\ \A o \in Objs : Len(ts_df[o]) > objs[o].self.forecast_period
        /\ CallFitOn(ts_df)

\* One object whose fit neither searches seasonal orders nor plots, called
\* MaxFits times, with predict calls before, between and after.
InitLife ==
    /\ \E c \in Configs :
          /\ c.self.metric \in ResultAttributes
          /\ ~c.self.seasonality
          /\ c.self.verbose = 0
          /\ c.self.forecast_period > 0
          /\ objs = [o \in {1} |-> c]
    /\ budget = MaxFits

NextLife ==
    \/ CallFitLong
    \/ FindBestPdq
    \/ FinalFit
    \/ Diagnostics
    \/ DynamicForecast
    \/ CallPredict

SpecLife == InitLife /\ [][NextLife]_vars

\* Two objects of one configuration, whose series have the same length and the
\* same training range.
SameTrainingRange(s, t, forecast_period) ==
    /\ Len(s) = Len(t)
    /\ 0 < forecast_period
    /\ forecast_period < Len(s)
    /\ \A i \in 1..(Len(s) - forecast_period) : s[i] = t[i]

InitLeak ==
    /\ \E c \in Configs :
          /\ c.self.forecast_period > 0
          /\ objs = [o \in {1, 2} |-> c]
    /\ budget = 1

LeakPairs(forecast_period) ==
    UNION {{<<s, t>> : t \in Revalued(s, forecast_period)} : s \in Series}

CallFitLeak ==
    \E ts_df \in LeakPairs(objs[1].self.forecast_period) :
        /\ SameTrainingRange(ts_df[1], ts_df[2], objs[1].self.forecast_period)
        /\ CallFitOn(ts_df)

NextLeak ==
    \/ CallFitLeak
    \/ FindBestPdq
    \/ FindBestPDQ
    \/ FinalFit
    \/ Diagnostics
    \/ DynamicForecast

SpecLeak == InitLeak /\ [][NextLeak]_vars

\* Two objects that differ in verbose alone, given the same series.
InitTwin ==
    /\ \E c \in Configs :
          /\ c.self.verbose = 1
          /\ c.self.forecast_period > 0
          /\ objs = [o \in {1, 2} |-> IF o = 1 THEN c ELSE [c EXCEPT !.self.verbose = 0]]
    /\ budget = 1

CallFitTwin ==
    \E ts_df \in [Objs -> Series] :
        /\ ts_df[1] = ts_df[2]
        /\ Len(ts_df[1]) > objs[1].self.forecast_period
        /\ CallFitOn(ts_df)

NextTwin ==
    \/ CallFitTwin
    \/ FindBestPdq
    \/ FindBestPDQ
    \/ FinalFit
    \/ Diagnostics
    \/ DynamicForecast

SpecTwin == InitTwin /\ [][NextTwin]_vars

\* ------------------------------------------------------------------- claims
Called(x) == x.call > 0

Finished(x) == x.call > 0 /\ x.pc = "idle"

Returned(x) == Finished(x) /\ x.ret.kind = "return"

\* fit returned (bestmodel, None, inf, inf)
ReturnedSentinel(x) == Returned(x) /\ x.ret.value[2] = NoneObj

\* fit returned (self.model, res2_df, rmse, norm_rmse)
ReturnedForecast(x) == Returned(x) /\ x.ret.value[2] # NoneObj

Events(x, kinds) == SelectSeq(x.trace, LAMBDA e : e.ev \in kinds)

Searches(x) == Events(x, {"find_best_pdq_or_PDQ"})

\* The guarded block of the final fit raised.
FinalFitFailed(x) ==
    \E i \in DOMAIN x.trace : x.trace[i].ev \in {"fit", "metric"} /\ x.trace[i].raised

\* The series is longer than the forecast horizon, and the horizon positive.
LongEnough(x) ==
    0 < x.self.forecast_period /\ x.self.forecast_period < Len(x.ts_df)

\* The constructor's arguments.
Configuration(x) == [x.self EXCEPT !.model = NoneObj]

\* C1: when the final fit fails, fit raises nothing: it has returned
\* (bestmodel, None, inf, inf), bestmodel being the unfitted model, and has
\* asked for no forecast and no dynamic RMSE.
C1_FinalFitFailureReturnsSentinel ==
    \A o \in Objs :
        LET x == objs[o]
        IN  FinalFitFailed(x) =>
                /\ x.pc = "idle"
                /\ x.ret = [kind |-> "return",
                            value |-> <<x.bestmodel, NoneObj, Inf, Inf>>]
                /\ x.bestmodel.kind = "SARIMAX"
                /\ Events(x, {"get_forecast", "forecast", "print_dynamic_rmse"}) = <<>>

C1_Witness ==
    \E o \in Objs :
        /\ \E i \in DOMAIN objs[o].trace :
              objs[o].trace[i].ev = "fit" /\ objs[o].trace[i].raised
        /\ ReturnedSentinel(objs[o])
        /\ objs[o].ret.value[3] = Inf

\* C2: a fit call on a series (here a non-empty one) no longer than the
\* forecast horizon ends in an insufficient-data error, and neither searches an
\* order nor builds or fits a model.
C2_ShortSeriesIsRejected ==
    \A o \in Objs :
        LET x == objs[o]
        IN  (Called(x) /\ x.ts_df # <<>> /\ Len(x.ts_df) <= x.self.forecast_period) =>
                /\ Events(x, {"find_best_pdq_or_PDQ", "SARIMAX", "fit"}) = <<>>
                /\ Finished(x) =>
                      x.ret = [kind |-> "raise", error |-> "InsufficientDataError"]

\* A fit call on a one-point series with horizon 1 that has built its model on
\* the empty train segment.
C2_Witness ==
    \E o \in Objs :
        /\ objs[o].ts_df = <<1>>
        /\ objs[o].self.forecast_period = 1
        /\ Searches(objs[o]) # <<>>
        /\ objs[o].bestmodel # NoneObj
        /\ objs[o].bestmodel.endog = <<>>

\* C3: with 0 < H < L, train is the first L-H points of the series and test
\* its last H points, in order; the forecasts fit asks for have len(test)
\* steps and the dynamic RMSE is taken against test.
C3_SplitIsExact ==
    \A o \in Objs :
        LET x == objs[o]
            L == Len(x.ts_df)
            H == x.self.forecast_period
        IN  (Called(x) /\ LongEnough(x)) =>
                /\ Len(x.ts_train) = L - H
                /\ \A i \in 1..(L - H) : x.ts_train[i] = x.ts_df[i]
                /\ Len(x.ts_test) = H
                /\ \A j \in 1..H : x.ts_test[j] = x.ts_df[L - H + j]
                /\ x.ts_train \o x.ts_test = x.ts_df
                /\ \A i \in DOMAIN x.trace :
                      /\ x.trace[i].ev \in {"get_forecast", "forecast"} =>
                            x.trace[i].steps = Len(x.ts_test)
                      /\ x.trace[i].ev = "print_dynamic_rmse" =>
                            /\ x.trace[i].actual = x.ts_test
                            /\ x.trace[i].original = x.ts_train
                /\ ReturnedForecast(x) =>
                      Len(Events(x, {"get_forecast", "forecast", "print_dynamic_rmse"})) = 3

C3_Witness ==
    \E o \in Objs :
        /\ LongEnough(objs[o])
        /\ Len(objs[o].ts_df) = 3
        /\ objs[o].self.forecast_period = 2
        /\ ReturnedForecast(objs[o])

\* C4: one fit run searches once, non-seasonally and with no fixed order, when
\* seasonality is false, and twice when it is true: non-seasonally first, then
\* seasonally with the first pass's (p,d,q) fixed and the configured seasonal
\* period; every search precedes the construction and the fit of the model.
C4_SearchPasses ==
    \A o \in Objs :
        LET x == objs[o]
            S == Searches(x)
        IN  /\ \A i, j \in DOMAIN x.trace :
                  (/\ x.trace[i].ev = "find_best_pdq_or_PDQ"
                   /\ x.trace[j].ev \in {"SARIMAX", "fit"}) => i < j
            /\ Len(S) >= 1 =>
                  /\ ~S[1].seasonality
                  /\ S[1].non_seasonal_pdq = None
                  /\ S[1].seasonal_period = None
            /\ Len(S) >= 2 =>
                  /\ S[2].seasonality
                  /\ S[2].non_seasonal_pdq = S[1].returned.order
                  /\ S[2].seasonal_period = x.self.seasonal_period
            /\ (Called(x) /\ x.pc \notin {"find_pdq", "find_PDQ"}) =>
                  /\ Len(S) = IF x.self.seasonality THEN 2 ELSE 1
                  /\ Events(x, {"SARIMAX"}) # <<>>
            /\ x.pc = "find_pdq" => Len(S) = 0
            /\ x.pc = "find_PDQ" => Len(S) = 1 /\ x.self.seasonality

C4_Witness ==
    \E o \in Objs :
        /\ objs[o].self.seasonality
        /\ Len(Searches(objs[o])) = 2
        /\ Searches(objs[o])[2].non_seasonal_pdq = <<1, 1, 0>>
        /\ Events(objs[o], {"fit"}) # <<>>

\* C5: the model fit builds has the (p,d,q) the non-seasonal pass returned, and
\* a seasonal order exactly when seasonality was asked for and the seasonal pass
\* confirmed it: then the (P,D,Q) that pass returned with the configured
\* period.  That model is the one fitted and, once fitted, stored.
C5_FinalModelOrders ==
    \A o \in Objs :
        LET x == objs[o]
            S == Searches(x)
            confirmed == x.self.seasonality /\ Len(S) = 2 /\ S[2].returned.seasonality
        IN  x.bestmodel # NoneObj =>
                /\ x.bestmodel.order = S[1].returned.order
                /\ x.bestmodel.endog = x.ts_train
                /\ (x.bestmodel.seasonal_order # None) <=> confirmed
                /\ confirmed =>
                      x.bestmodel.seasonal_order =
                          <<S[2].returned.order[1], S[2].returned.order[2],
                            S[2].returned.order[3], x.self.seasonal_period>>
                /\ \A i \in DOMAIN x.trace :
                      x.trace[i].ev = "fit" => x.trace[i].of = x.bestmodel
                /\ ReturnedForecast(x) =>
                      /\ x.self.model = Fitted(x.bestmodel, x.call)
                      /\ x.ret.value[1] = x.self.model

C5_Witness ==
    \E o \in Objs :
        /\ ReturnedForecast(objs[o])
        /\ objs[o].bestmodel.order = <<1, 0, 0>>
        /\ objs[o].bestmodel.seasonal_order = <<0, 1, 0, <<12>>>>

\* C6: two runs of one configuration on series of length L that agree on the
\* first L-H points (0 < H < L) make the same search calls, build and fit the
\* same model and store the same result; what they return differs at most in
\* the RMSE figures.
C6_NoLeakage ==
    \A a, b \in Objs :
        LET x == objs[a]
            y == objs[b]
            estimation == {"find_best_pdq_or_PDQ", "SARIMAX", "fit", "metric"}
        IN  (/\ Called(x) /\ Called(y)
             /\ Configuration(x) = Configuration(y)
             /\ SameTrainingRange(x.ts_df, y.ts_df, x.self.forecast_period)) =>
                /\ Events(x, estimation) = Events(y, estimation)
                /\ x.best_pdq = y.best_pdq
                /\ x.best_PDQ = y.best_PDQ
                /\ x.bestmodel = y.bestmodel
                /\ x.self.model = y.self.model
                /\ (Returned(x) /\ Returned(y)) =>
                      /\ x.ret.value[1] = y.ret.value[1]
                      /\ x.ret.value[2] = y.ret.value[2]

C6_Witness ==
    /\ Objs = {1, 2}
    /\ ReturnedForecast(objs[1])
    /\ ReturnedForecast(objs[2])
    /\ SameTrainingRange(objs[1].ts_df, objs[2].ts_df, objs[1].self.forecast_period)
    /\ objs[1].ts_df # objs[2].ts_df
    /\ objs[1].ret.value[3] # objs[2].ret.value[3]
    /\ objs[1].ret.value[1] = objs[2].ret.value[1]

\* C7: predict with no horizon asks the stored fitted model for forecast_period
\* steps, predict with a horizon h (0 included) asks it for h steps, and a
\* predict call leaves the object's fields as they were.
C7_PredictHorizon ==
    \A o \in Objs :
        LET x == objs[o]
        IN  x.pred # NoneObj =>
                /\ x.self = x.pred.before
                /\ x.pred.before.model # NoneObj =>
                      /\ x.pred.out.kind = "forecast"
                      /\ x.pred.out.of = x.pred.before.model
                      /\ x.pred.arg = None =>
                            x.pred.out.steps = x.pred.before.forecast_period
                      /\ x.pred.arg # None =>
                            x.pred.out.steps = x.pred.arg[1]

C7_Witness ==
    \E o \in Objs :
        /\ objs[o].pred # NoneObj
        /\ objs[o].pred.arg = <<0>>
        /\ objs[o].self.forecast_period = 2
        /\ objs[o].self.model # NoneObj
        /\ objs[o].pred.out.steps = 0

\* What the search and the estimator answered in a run.
EstimatorBehaviour(x) ==
    <<[i \in DOMAIN Searches(x) |-> Searches(x)[i].returned],
      [i \in DOMAIN Events(x, {"fit", "metric"}) |->
          Events(x, {"fit", "metric"})[i].raised]>>

\* C8: two fit runs that differ in verbose alone, on the same long-enough
\* series and with the search and the estimator answering the same, end the
\* same way: the same return value or the same error, and the same stored
\* model.
C8_DiagnosticsDoNotAffectResults ==
    \A a, b \in Objs :
        LET x == objs[a]
            y == objs[b]
        IN  (/\ Finished(x) /\ Finished(y)
             /\ LongEnough(x)
             /\ x.ts_df = y.ts_df
             /\ EstimatorBehaviour(x) = EstimatorBehaviour(y)
             /\ [Configuration(x) EXCEPT !.verbose = 0]
                    = [Configuration(y) EXCEPT !.verbose = 0]) =>
                /\ x.ret = y.ret
                /\ x.self.model = y.self.model

\* The verbose = 1 run has raised where the verbose = 0 run has returned its
\* forecast.
C8_Witness ==
    /\ Objs = {1, 2}
    /\ Finished(objs[1]) /\ Finished(objs[2])
    /\ LongEnough(objs[1])
    /\ objs[1].ts_df = objs[2].ts_df
    /\ EstimatorBehaviour(objs[1]) = EstimatorBehaviour(objs[2])
    /\ objs[1].self.verbose = 1 /\ objs[2].self.verbose = 0
    /\ objs[1].ret.kind = "raise"
    /\ ReturnedForecast(objs[2])

\* C9: every run whose final fit succeeds (here on a series longer than the
\* horizon) takes the static error once, dropping d leading points, or d+D
\* under a confirmed seasonal order.
C9_StaticErrorOnEveryRun ==
    \A o \in Objs :
        LET x == objs[o]
            S == Events(x, {"print_static_rmse"})
        IN  (ReturnedForecast(x) /\ LongEnough(x)) =>
                /\ Len(S) = 1
                /\ S[1].dropped =
                      IF x.bestmodel.seasonal_order # None
                      THEN x.best_pdq[2] + x.best_PDQ[2]
                      ELSE x.best_pdq[2]

\* A verbose run under a confirmed seasonal order with d = D = 1 that took the
\* static error with one point dropped.
C9_Witness ==
    \E o \in Objs :
        /\ ReturnedForecast(objs[o])
        /\ LongEnough(objs[o])
        /\ objs[o].self.verbose = 1
        /\ objs[o].bestmodel.seasonal_order # None
        /\ objs[o].best_pdq[2] = 1
        /\ objs[o].best_PDQ[2] = 1
        /\ Len(objs[o].ts_train) = 2
        /\ Events(objs[o], {"print_static_rmse"})[1].dropped = 1

\* C10: between calls the stored model is None or the result of the most recent
\* fit call, and it is None whenever that call returned the failure sentinel.
C10_StoredModelIsOfLastFit ==
    \A o \in Objs :
        LET x == objs[o]
        IN  Finished(x) =>
                /\ x.self.model = NoneObj \/ x.self.model.call = x.call
                /\ ReturnedSentinel(x) => x.self.model = NoneObj

\* The second fit call has returned the sentinel and the stored model is the
\* first call's.
C10_Witness ==
    \E o \in Objs :
        /\ objs[o].call = 2
        /\ ReturnedSentinel(objs[o])
        /\ objs[o].self.model # NoneObj
        /\ objs[o].self.model.call = 1

====
